---------------------------- MODULE Spec2Model ----------------------------
(***************************************************************************)
(* Orbyte: the extension runtime of BotWorker (run_script / stop_script,   *)
(* src/bot_worker.py) and the lightweight gateway client ControllerClient  *)
(* (src/controller_worker.py) with its command registry and interaction    *)
(* router (src/controller_commands.py), as state machines over one event   *)
(* loop.                                                                   *)
(*                                                                         *)
(* Both run on a single-threaded asyncio loop: a coroutine runs without    *)
(* interruption from one suspension point (an await that really yields) to *)
(* the next, so every action below is one such stretch of code.            *)
(***************************************************************************)
EXTENDS Integers, Sequences, FiniteSets, TLC

VARIABLES
    commands,          \* client.commands: the Command objects, <<name, creator>>
    extra_events,      \* client.extra_events: the listeners, <<event, creator, position>>
    script_commands,   \* BotWorker.script_commands: filename -> recorded command names
    script_listeners,  \* BotWorker.script_listeners: filename -> recorded listeners
    running_tasks,     \* BotWorker.running_tasks: filename -> task (the run that made it)
    runs,              \* the run_script invocations so far, in order of invocation
    \* ControllerClient (src/controller_worker.py)
    ws,                \* self.ws: "None", "open", or "closed" (ws.closed)
    is_running,        \* self.is_running
    sequence,          \* self.sequence: <<>> for None, <<n>> for n
    heartbeat_interval,\* self.heartbeat_interval in seconds, as num/den
    last_heartbeat_sent, \* self._last_heartbeat_sent, in ms (0 at construction)
    latency,           \* self.latency in ms: <<>> for float('inf'), <<n>> for n
    identity,          \* session_id, user_id, username
    gw_pc,             \* where start() is: "init", "listening", "returned"
    hb,                \* the heartbeat_loop tasks, in order of creation
    spawned,           \* tasks listen() created for READY and INTERACTION_CREATE,
                       \* in order of creation
    sock,              \* the transport under ws: "up" or "lost"
    now,               \* time.time(), in ms
    nrecv,             \* messages the read loop has taken from the socket
    wire               \* history of the socket: Hello frames handled and the last
                       \* one's interval, Identify frames sent, the last Heartbeat
                       \* sent, when it went out and the last dispatch sequence number
                       \* then, the last dispatch sequence number seen, and the time
                       \* from the last Heartbeat to the last HeartbeatAck
    ,
    \* The command registry and the interaction router
    COMMANDS_REGISTRY, \* controller_commands.COMMANDS_REGISTRY: name -> entry
    routed,            \* the last handle_interaction call: <<>> or <<its outcome>>
    logged,            \* what the router and register_commands have logged
    pushes,            \* the PUTs to the command-definition endpoint, in order
    got                \* the last get_arg call: <<>> or <<arguments and result>>

extVars == <<commands, extra_events, script_commands, script_listeners,
             running_tasks, runs>>

gwVars == <<ws, is_running, sequence, heartbeat_interval, last_heartbeat_sent,
            latency, identity, gw_pc, hb, spawned, sock, now, nrecv, wire>>

ctlVars == <<COMMANDS_REGISTRY, routed, logged, pushes, got>>

vars == <<extVars, gwVars, ctlVars>>

-----------------------------------------------------------------------------
(* Bounds and the inputs drawn from them.                                  *)

MaxRuns == 3

Filenames == {"a.py", "b.py"}

\* Objects made by the host, outside any script, carry creator 0.
HostCommands == {<<"help", 0>>}
HostListeners == {<<"on_message", 0, 0>>}

CmdStmt(n) == [op |-> "command", arg |-> n]
LstStmt(e) == [op |-> "listener", arg |-> e]
RaiseStmt == [op |-> "raise", arg |-> "ValueError"]
ExitStmt == [op |-> "exit", arg |-> "SystemExit"]
\* asyncio.create_task(op()) on a coroutine the script defines with async def
\* and that loops until it is cancelled. Nothing records such a task.
SpawnStmt == [op |-> "create_task", arg |-> "op"]

\* A script: the statements its top level executes, and whether its text holds
\* 'await ' or 'async def' outside what it registers (line 1152).
Scripts ==
    { [body |-> <<CmdStmt("bar")>>, has_async |-> FALSE],
      [body |-> <<CmdStmt("foo"), LstStmt("on_message")>>, has_async |-> FALSE],
      [body |-> <<LstStmt("on_message")>>, has_async |-> FALSE],
      [body |-> <<CmdStmt("foo"), RaiseStmt>>, has_async |-> FALSE],
      [body |-> <<ExitStmt>>, has_async |-> FALSE],
      [body |-> <<>>, has_async |-> FALSE],
      [body |-> <<SpawnStmt>>, has_async |-> TRUE] }

-----------------------------------------------------------------------------
(* Helpers over the Python collections.                                    *)

CommandNames(cmds) == {c[1] : c \in cmds}

DictPop(d, k) == [x \in (DOMAIN d) \ {k} |-> d[x]]

DictSet(d, k, v) == [x \in (DOMAIN d) \cup {k} |-> IF x = k THEN v ELSE d[x]]

\* exec(script_content, script_globals): the statements run in order; a
\* statement that raises ends the execution and keeps what ran before it.
\* add_command raises when the name is already registered. sys.exit() raises
\* SystemExit, which is not an Exception.
RECURSIVE ExecFrom(_, _, _, _, _)
ExecFrom(body, k, run, cmds, evs) ==
    IF k > Len(body)
    THEN [commands |-> cmds, extra_events |-> evs, raised |-> FALSE,
          exited |-> FALSE, ops |-> 0]
    ELSE LET st == body[k] IN
         CASE st.op = "command" ->
                 IF st.arg \in CommandNames(cmds)
                 THEN [commands |-> cmds, extra_events |-> evs, raised |-> TRUE,
                       exited |-> FALSE, ops |-> 0]
                 ELSE ExecFrom(body, k + 1, run, cmds \cup {<<st.arg, run>>}, evs)
           [] st.op = "listener" ->
                 ExecFrom(body, k + 1, run, cmds, evs \cup {<<st.arg, run, k>>})
           [] st.op = "create_task" ->
                 [ExecFrom(body, k + 1, run, cmds, evs) EXCEPT !.ops = @ + 1]
           [] st.op = "exit" ->
                 [commands |-> cmds, extra_events |-> evs, raised |-> FALSE,
                  exited |-> TRUE, ops |-> 0]
           [] OTHER ->
                 [commands |-> cmds, extra_events |-> evs, raised |-> TRUE,
                  exited |-> FALSE, ops |-> 0]

Exec(script, run, cmds, evs) == ExecFrom(script.body, 1, run, cmds, evs)

-----------------------------------------------------------------------------
(* stop_script.                                                            *)

\* A stop that drops every command a script made, whoever recorded it.
RemoveEveryScriptCommand(cmds, names) == {c \in cmds : c[2] = 0}

\* Lines 1192-1196: every recorded name that get_command finds is removed.
RemoveRecordedCommands(cmds, names) == {c \in cmds : c[1] \notin names}

\* A stop that forgets the listeners.
KeepRecordedListeners(evs, recorded) == evs

\* Lines 1205-1208: every recorded listener is removed.
RemoveRecordedListeners(evs, recorded) == evs \ recorded

\* Lines 1217-1221: the recorded task, when not done, is asked to cancel.
CancelRecordedTask(rs, rt, filename) ==
    IF filename \in DOMAIN rt /\ rs[rt[filename]].task \in {"pending", "must_cancel"}
    THEN [rs EXCEPT ![rt[filename]].task = "must_cancel"]
    ELSE rs

\* The messages of lines 1198-1199, 1212-1213, 1221.
StopMessages(cmds, sc, sl, rt, rs, filename) ==
    (IF filename \in DOMAIN sc /\ sc[filename] \cap CommandNames(cmds) # {}
     THEN {"Removed commands"} ELSE {})
    \cup (IF filename \in DOMAIN sl /\ sl[filename] # {}
          THEN {"Removed listeners"} ELSE {})
    \cup (IF filename \in DOMAIN rt /\ rs[rt[filename]].task \in {"pending", "must_cancel"}
          THEN {"Stopping execution..."} ELSE {})

\* stop_script(filename) on the given state; it never suspends.
StopScript(filename, cmds, evs, sc, sl, rt, rs) ==
    [ commands |-> IF filename \in DOMAIN sc
                   THEN RemoveRecordedCommands(cmds, sc[filename]) ELSE cmds,
      extra_events |-> IF filename \in DOMAIN sl
                       THEN RemoveRecordedListeners(evs, sl[filename]) ELSE evs,
      script_commands |-> DictPop(sc, filename),
      script_listeners |-> DictPop(sl, filename),
      runs |-> CancelRecordedTask(rs, rt, filename),
      messages |-> StopMessages(cmds, sc, sl, rt, rs, filename) ]

\* The bot thread's event loop (lines 565-576) runs until a coroutine lets a
\* SystemExit out: run_until_complete re-raises it, `except Exception` does
\* not catch it and the thread ends, so nothing scheduled on the loop runs.
LoopRunning == \A i \in 1..Len(runs) : runs[i].pc # "exited"

Unload(filename) ==
    LET r == StopScript(filename, commands, extra_events, script_commands,
                        script_listeners, running_tasks, runs) IN
    /\ LoopRunning
    /\ commands' = r.commands
    /\ extra_events' = r.extra_events
    /\ script_commands' = r.script_commands
    /\ script_listeners' = r.script_listeners
    /\ runs' = r.runs
    /\ UNCHANGED running_tasks

-----------------------------------------------------------------------------
(* run_script, from its call to its first suspension or its return.        *)

\* Lines 1053-1055: an earlier instance is stopped when the filename is recorded.
StopPrevious(filename) ==
    IF filename \in DOMAIN running_tasks
    THEN StopScript(filename, commands, extra_events, script_commands,
                    script_listeners, running_tasks, runs)
    ELSE [ commands |-> commands, extra_events |-> extra_events,
           script_commands |-> script_commands,
           script_listeners |-> script_listeners,
           runs |-> runs, messages |-> {} ]

\* A load that takes every command of the session for its own.
EveryCommandIsNew(after, before) == CommandNames(after)

\* Lines 1116-1117 and 1120-1121: what is new after the execution.
NewCommands(after, before) == CommandNames(after) \ CommandNames(before)

NewListeners(after, before) == after \ before

\* Lines 1125-1131: a non-empty difference is recorded, an empty one is not.
Record(d, filename, new) == IF new # {} THEN DictSet(d, filename, new) ELSE d

\* Line 1183: the finally clause drops whatever task is recorded for the filename.
FinallyPop(rt, filename) == DictPop(rt, filename)

Load(filename, script) ==
    /\ Len(runs) < MaxRuns
    /\ LoopRunning
    /\ LET me == Len(runs) + 1
           s == StopPrevious(filename)
           x == Exec(script, me, s.commands, s.extra_events)
           new_commands == NewCommands(x.commands, s.commands)
           new_listeners == NewListeners(x.extra_events, s.extra_events)
           active == new_commands # {} \/ new_listeners # {}
           base == [filename |-> filename, execs |-> 1, raised |-> x.raised,
                    spawns |-> x.ops, ops |-> x.ops]
       IN
       /\ commands' = x.commands
       /\ extra_events' = x.extra_events
       /\ IF x.exited
          THEN \* SystemExit passes lines 1175-1181; line 1183 runs
               /\ runs' = Append(s.runs, base @@
                       [pc |-> "exited", task |-> "none", kind |-> "none",
                        events |-> <<"script_start">>])
               /\ script_commands' = s.script_commands
               /\ script_listeners' = s.script_listeners
               /\ running_tasks' = FinallyPop(running_tasks, filename)
          ELSE IF x.raised
          THEN \* lines 1178-1183
               /\ runs' = Append(s.runs, base @@
                       [pc |-> "done", task |-> "none", kind |-> "none",
                        events |-> <<"script_start", "script_error", "script_end">>])
               /\ script_commands' = s.script_commands
               /\ script_listeners' = s.script_listeners
               /\ running_tasks' = FinallyPop(running_tasks, filename)
          ELSE
               /\ script_commands' = Record(s.script_commands, filename, new_commands)
               /\ script_listeners' = Record(s.script_listeners, filename, new_listeners)
               /\ IF active
                  THEN \* lines 1133-1149
                       /\ runs' = Append(s.runs, base @@
                               [pc |-> "await_task", task |-> "pending",
                                kind |-> "keep_alive",
                                events |-> <<"script_start", "registered">>])
                       /\ running_tasks' = DictSet(running_tasks, filename, me)
                  ELSE IF script.has_async
                  THEN \* lines 1154-1166
                       /\ runs' = Append(s.runs, base @@
                               [pc |-> "await_task", task |-> "pending",
                                kind |-> "background",
                                events |-> <<"script_start">>])
                       /\ running_tasks' = DictSet(running_tasks, filename, me)
                  ELSE \* lines 1168-1173, 1183
                       /\ runs' = Append(s.runs, base @@
                               [pc |-> "done", task |-> "none", kind |-> "none",
                                events |-> <<"script_start", "executed", "script_end">>])
                       /\ running_tasks' = FinallyPop(running_tasks, filename)

-----------------------------------------------------------------------------
(* The tasks and the resumption of a suspended run_script.                 *)

\* keep_alive (lines 1140-1145) or the script's own task takes the
\* CancelledError that task.cancel() asked for.
TaskCancelled(i) ==
    /\ LoopRunning
    /\ runs[i].task = "must_cancel"
    /\ runs' = [runs EXCEPT ![i].task = "cancelled"]
    /\ UNCHANGED <<commands, extra_events, script_commands, script_listeners,
                   running_tasks>>

\* The script's own task (_script_main, lines 1156-1159) runs: the script's
\* statements, which line 1113 has already executed, are executed again and
\* the task ends. keep_alive never does.
TaskFinished(i) ==
    /\ LoopRunning
    /\ runs[i].task = "pending"
    /\ runs[i].kind = "background"
    /\ runs' = [runs EXCEPT ![i].task = "finished",
                            ![i].execs = @ + 1,
                            ![i].ops = @ + runs[i].spawns]
    /\ UNCHANGED <<commands, extra_events, script_commands, script_listeners,
                   running_tasks>>

\* `await task` returns or raises CancelledError: lines 1168-1183.
Resume(i) ==
    /\ LoopRunning
    /\ runs[i].pc = "await_task"
    /\ runs[i].task \in {"cancelled", "finished"}
    /\ runs' = [runs EXCEPT
                  ![i].pc = "done",
                  ![i].events = @ \o (IF runs[i].task = "cancelled"
                                     THEN <<"stopped", "script_end">>
                                     ELSE <<"executed", "script_end">>)]
    /\ running_tasks' = FinallyPop(running_tasks, runs[i].filename)
    /\ UNCHANGED <<commands, extra_events, script_commands, script_listeners>>

-----------------------------------------------------------------------------

InitExt ==
    /\ commands = HostCommands
    /\ extra_events = HostListeners
    /\ script_commands = <<>>
    /\ script_listeners = <<>>
    /\ running_tasks = <<>>
    /\ runs = <<>>

-----------------------------------------------------------------------------
(* ControllerClient: the frames the gateway may deliver.                   *)

MaxFrames == 3

MaxTicks == 2

None == <<>>

Some(x) == <<x>>

Frame(op, t, s, d) == [op |-> op, t |-> t, s |-> s, d |-> d]

Null == [null |-> TRUE]

HelloFrames ==
    { Frame(10, "None", None, [heartbeat_interval |-> ms]) : ms \in {1000, 2000} }

ReadyFrame ==
    Frame(0, "READY", Some(1),
          [session_id |-> "sess", user |-> [id |-> "42", username |-> "ctl"]])

\* Option.SUB_COMMAND .. Option.INTEGER (controller_commands.py lines 11-14).
SUB_COMMAND == 1

SUB_COMMAND_GROUP == 2

OPTION_STRING == 3

OPTION_INTEGER == 4

\* JSON values of options: a string, an integer.
StrVal(x) == [str |-> x]

IntVal(x) == [int |-> x]

\* An option of an interaction payload that carries a value.
Leaf(n, ty, v) == [name |-> n, type |-> ty, value |-> v]

\* A subcommand or subcommand-group option: it carries options, no value.
Sub(n, ty, opts) == [name |-> n, type |-> ty, options |-> opts]

\* An interaction: type 2 is a command, type 4 an autocomplete request.
Interaction(ty, n, opts) ==
    [id |-> "i1", type |-> ty, data |-> [name |-> n, options |-> opts]]

PingInteraction == Interaction(2, "ping", <<>>)

\* What the socket hands to `async for msg in self.ws`: TEXT messages whose
\* data json.loads accepts, one it rejects, and a message of another type.
Messages ==
    { [type |-> "TEXT", json |-> TRUE, data |-> f] :
        f \in HelloFrames \cup
              { Frame(10, "None", None, [trace |-> "gw"]),
                Frame(11, "None", None, Null),
                ReadyFrame,
                Frame(0, "READY", Some(2), [v |-> 9]),
                Frame(0, "INTERACTION_CREATE", Some(3), PingInteraction),
                Frame(0, "TYPING_START", None, [id |-> "t1"]) } }
    \cup { [type |-> "TEXT", json |-> FALSE, data |-> Null],
           [type |-> "BINARY", json |-> FALSE, data |-> Null] }

-----------------------------------------------------------------------------
(* start: lines 34-48.                                                     *)

\* ws_connect succeeds: lines 43-48, up to the first read of listen().
Connect(from) ==
    /\ gw_pc = from
    /\ ws' = "open"
    /\ sock' = "up"
    /\ is_running' = TRUE
    /\ gw_pc' = "listening"
    /\ UNCHANGED <<sequence, heartbeat_interval, last_heartbeat_sent, latency,
                   identity, hb, spawned, now, nrecv, wire>>

\* ws_connect raises: start() ends with the exception at line 43.
ConnectFails(from) ==
    /\ gw_pc = from
    /\ gw_pc' = "returned"
    /\ UNCHANGED <<ws, sock, is_running, sequence, heartbeat_interval,
                   last_heartbeat_sent, latency, identity, hb, spawned, now,
                   nrecv, wire>>

\* BotWorker starts its ControllerClient once (bot_worker.py line 520).
Start == Connect("init")

StartFails == ConnectFails("init")

\* start() is called again on the same client once the earlier call has
\* returned (bot_worker.py lines 542-545): lines 34-48 assign token, session,
\* ws and is_running and nothing else.
Restart == Connect("returned")

-----------------------------------------------------------------------------
(* listen: lines 50-86.                                                    *)

\* A read loop that stores s whether or not the frame carries one.
OverwriteSequence(old, s) == s

\* Lines 61-62.
UpdateSequence(old, s) == IF s # None THEN s ELSE old

\* Line 65: d['heartbeat_interval'] / 1000, kept exact as a fraction.
IntervalSeconds(ms) == [num |-> ms, den |-> 1000]

\* asyncio.sleep(self.heartbeat_interval), in ms.
SleepMs(interval) == (interval.num * 1000) \div interval.den

\* The subtraction the wrong way round.
LatencyReversed(t, sent) == sent - t

\* Line 71.
Latency(t, sent) == t - sent

\* Lines 70-71: the guard and the assignment.
AckLatency(old, t, sent) == IF sent # 0 THEN Some(Latency(t, sent)) ELSE old

\* Lines 84-86, then listen() returns and start() leaves `async with`
\* (lines 41-48), which closes the socket.
Abort(seq, w) ==
    /\ sequence' = seq
    /\ is_running' = FALSE
    /\ ws' = "closed"
    /\ gw_pc' = "returned"
    /\ wire' = w
    /\ UNCHANGED <<heartbeat_interval, last_heartbeat_sent, latency, identity,
                   hb, spawned>>

\* asyncio.create_task at lines 79 and 82: the task has not run yet. frame is
\* the message that made it; ended, the messages read when it finished.
NewTask(kind, d, frame) ==
    [kind |-> kind, d |-> d, state |-> "pending", frame |-> frame,
     ended |-> 0, pushed |-> FALSE, outcome |-> "None"]

NewHeartbeatTask == [state |-> "ready", wake_at |-> 0, acked |-> FALSE, missed |-> 0]

\* An identify() that sends nothing.
SendNoIdentify(w) == w

\* Lines 88-104 with send_json (lines 118-121): the socket is open while
\* listen() is reading from it, so the Identify goes out.
SendIdentify(w) == [w EXCEPT !.identify = @ + 1]

\* Lines 64-67.
OnHello(d, seq) ==
    IF "heartbeat_interval" \notin DOMAIN d
    THEN Abort(seq, wire)
    ELSE /\ sequence' = seq
         /\ heartbeat_interval' = IntervalSeconds(d.heartbeat_interval)
         /\ hb' = Append(hb, NewHeartbeatTask)
         /\ wire' = SendIdentify([wire EXCEPT !.hello = @ + 1,
                                               !.hello_ms = d.heartbeat_interval])
         /\ UNCHANGED <<ws, is_running, last_heartbeat_sent, latency, identity,
                        gw_pc, spawned>>

\* Lines 69-71.
OnHeartbeatAck(seq) ==
    /\ sequence' = seq
    /\ latency' = AckLatency(latency, now, last_heartbeat_sent)
    /\ hb' = [k \in DOMAIN hb |-> [hb[k] EXCEPT !.acked = TRUE]]
    /\ wire' = [wire EXCEPT
                  !.ack_after = IF wire.hb_at # None
                                THEN Some(now - wire.hb_at[1]) ELSE @]
    /\ UNCHANGED <<ws, is_running, heartbeat_interval, last_heartbeat_sent,
                   identity, gw_pc, spawned>>

\* History: the sequence number of the last dispatch frame that carried one,
\* and whether a dispatch frame without one has followed one with.
SawDispatch(w, s) ==
    [w EXCEPT !.dispatch_seq = IF s # None THEN s ELSE @,
              !.kept = @ \/ (s = None /\ w.dispatch_seq # None)]

\* Lines 73-82.
OnDispatch(t, d, seq, s) ==
    IF t = "READY"
    THEN IF "session_id" \notin DOMAIN d \/ "user" \notin DOMAIN d
         THEN Abort(seq, SawDispatch(wire, s))
         ELSE /\ sequence' = seq
              /\ identity' = [session_id |-> d.session_id, user_id |-> d.user.id,
                              username |-> d.user.username]
              /\ spawned' = Append(spawned,
                                    NewTask("register_commands", Null, nrecv + 1))
              /\ wire' = SawDispatch(wire, s)
              /\ UNCHANGED <<ws, is_running, heartbeat_interval,
                             last_heartbeat_sent, latency, gw_pc, hb>>
    ELSE /\ sequence' = seq
         /\ spawned' = IF t = "INTERACTION_CREATE"
                       THEN Append(spawned,
                                   NewTask("handle_interaction", d, nrecv + 1))
                       ELSE spawned
         /\ wire' = SawDispatch(wire, s)
         /\ UNCHANGED <<ws, is_running, heartbeat_interval, last_heartbeat_sent,
                        latency, identity, gw_pc, hb>>

\* One turn of the read loop: lines 53-82 for one message.
Recv(msg) ==
    /\ gw_pc = "listening"
    /\ sock = "up"
    /\ nrecv < MaxFrames
    /\ nrecv' = nrecv + 1
    /\ UNCHANGED <<sock, now>>
    /\ IF msg.type # "TEXT"
       THEN UNCHANGED <<ws, is_running, sequence, heartbeat_interval,
                        last_heartbeat_sent, latency, identity, gw_pc, hb,
                        spawned, wire>>
       ELSE IF ~msg.json
       THEN Abort(sequence, wire)
       ELSE LET data == msg.data
                seq == UpdateSequence(sequence, data.s)
            IN
            CASE data.op = 10 -> OnHello(data.d, seq)
              [] data.op = 11 -> OnHeartbeatAck(seq)
              [] data.op = 0 -> OnDispatch(data.t, data.d, seq, data.s)

\* The read loop ends without an exception: the server closed the socket, or
\* the transport was lost and receive() turned that into a CLOSED message.
\* listen() returns, start() leaves `async with`; is_running is not touched.
ReadLoopEnds ==
    /\ gw_pc = "listening"
    /\ ws' = "closed"
    /\ gw_pc' = "returned"
    /\ UNCHANGED <<is_running, sequence, heartbeat_interval, last_heartbeat_sent,
                   latency, identity, hb, spawned, sock, now, nrecv, wire>>

\* The connection drops; the read loop has not seen it yet.
TransportLost ==
    /\ gw_pc = "listening"
    /\ sock = "up"
    /\ sock' = "lost"
    /\ UNCHANGED <<ws, is_running, sequence, heartbeat_interval,
                   last_heartbeat_sent, latency, identity, gw_pc, hb, spawned,
                   now, nrecv, wire>>

-----------------------------------------------------------------------------
(* heartbeat_loop: lines 106-116.                                          *)

\* A loop that goes on for as long as the client is marked running.
LoopWhileRunning == is_running

\* Line 109.
LoopCondition == is_running /\ ws = "open"

\* Line 112.
HeartbeatPayload(seq) == [op |-> 1, d |-> seq]

EndedTask(missed) == [state |-> "done", wake_at |-> 0, acked |-> FALSE, missed |-> missed]

\* One turn of a heartbeat task: from its start, or from the end of its
\* sleep, to its next sleep or its end.
HeartbeatStep(k) ==
    /\ \/ hb[k].state = "ready"
       \/ hb[k].state = "sleeping" /\ now >= hb[k].wake_at
    /\ LET woke == hb[k].state = "sleeping"
           missed == IF ~woke THEN 0
                     ELSE IF hb[k].acked THEN 0 ELSE hb[k].missed + 1
       IN
       IF ~LoopCondition
       THEN /\ hb' = [hb EXCEPT ![k] = EndedTask(missed)]
            /\ UNCHANGED <<last_heartbeat_sent, wire>>
       ELSE /\ last_heartbeat_sent' = now
            /\ IF sock = "lost"
               THEN \* send_json raises, line 115-116
                    /\ hb' = [hb EXCEPT ![k] = EndedTask(missed)]
                    /\ UNCHANGED wire
               ELSE /\ hb' = [hb EXCEPT ![k] =
                              [state |-> "sleeping",
                               wake_at |-> now + SleepMs(heartbeat_interval),
                               acked |-> FALSE, missed |-> missed]]
                    /\ wire' = [wire EXCEPT
                                  !.last_hb = HeartbeatPayload(sequence),
                                  !.hb_at = Some(now),
                                  !.hb_expect = wire.dispatch_seq]
    /\ UNCHANGED <<ws, is_running, sequence, heartbeat_interval, latency, identity,
                   gw_pc, spawned, sock, now, nrecv>>

\* Time passes. Nothing reads the clock before start() has connected.
Tick ==
    /\ gw_pc # "init"
    /\ now < 1000 * (MaxTicks + 1)
    /\ now' = now + 1000
    /\ UNCHANGED <<ws, is_running, sequence, heartbeat_interval,
                   last_heartbeat_sent, latency, identity, gw_pc, hb, spawned,
                   sock, nrecv, wire>>

\* Time goes on after the clock bound while a heartbeat task of a connection
\* that has ended is still in its sleep.
TickPastBound ==
    /\ gw_pc = "returned"
    /\ now >= 1000 * (MaxTicks + 1)
    /\ \E k \in DOMAIN hb : hb[k].state = "sleeping" /\ hb[k].wake_at > now
    /\ now' = now + 1000
    /\ UNCHANGED <<ws, is_running, sequence, heartbeat_interval,
                   last_heartbeat_sent, latency, identity, gw_pc, hb, spawned,
                   sock, nrecv, wire>>

InitGw ==
    /\ ws = "None"
    /\ is_running = FALSE
    /\ sequence = None
    /\ heartbeat_interval = [num |-> 41250, den |-> 1000]
    /\ last_heartbeat_sent = 0
    /\ latency = None
    /\ identity = [session_id |-> "None", user_id |-> "None", username |-> "None"]
    /\ gw_pc = "init"
    /\ hb = <<>>
    /\ spawned = <<>>
    /\ sock = "up"
    /\ now = 1000
    /\ nrecv = 0
    /\ wire = [hello |-> 0, hello_ms |-> 0, identify |-> 0, last_hb |-> Null,
               hb_at |-> None, hb_expect |-> None, dispatch_seq |-> None,
               kept |-> FALSE, ack_after |-> None]

-----------------------------------------------------------------------------
(* The command registry: controller_commands.py lines 8 and 55-107.        *)

\* What the decorators are applied to: top-level definitions <<name, handler,
\* autocomplete handler>>, group names, and subcommand definitions.
Definitions ==
    { <<"ping", "ping_command", "None">>,
      <<"echo", "echo_command", "None">>,
      <<"echo", "echo_command", "echo_autocomplete">>,
      <<"troll", "troll_command", "None">> }

GroupNames == {"troll", "echo"}

SubDefinitions ==
    { <<"spam", "troll_spam", "None">>,
      <<"say", "echo_say", "say_autocomplete">> }

\* The dict controller_command stores (lines 94-105).
CommandEntry(name, func, autocomplete) ==
    [group |-> FALSE, name |-> name, callback |-> func,
     autocomplete |-> autocomplete]

\* A CommandGroup object (lines 57-60): it has the attribute subcommands.
GroupEntry(name, subcommands) ==
    [group |-> TRUE, name |-> name, subcommands |-> subcommands]

\* The dict CommandGroup.command stores (lines 67-76).
SubEntry(name, func, autocomplete) ==
    [name |-> name, callback |-> func, autocomplete |-> autocomplete]

NoSubcommands == [x \in {} |-> SubEntry("None", "None", "None")]

\* A registration that forgets every other name.
RegisterAlone(reg, name, entry) == [x \in {name} |-> entry]

\* COMMANDS_REGISTRY[name] = ... (lines 62 and 94).
Register(reg, name, entry) == DictSet(reg, name, entry)

\* A lookup that falls back on the first group it finds.
GetOrAnyGroup(reg, name) ==
    IF name \in DOMAIN reg THEN <<reg[name]>>
    ELSE IF \E n \in DOMAIN reg : reg[n].group
    THEN <<reg[CHOOSE n \in DOMAIN reg : reg[n].group]>>
    ELSE None

\* dict.get (controller_worker.py lines 354 and 362): <<>> for None.
Get(reg, name) == IF name \in DOMAIN reg THEN <<reg[name]>> ELSE None

\* @controller_command(name, ...) applied to func: lines 91-107.
controller_command(name, func, autocomplete) ==
    /\ COMMANDS_REGISTRY' =
           Register(COMMANDS_REGISTRY, name, CommandEntry(name, func, autocomplete))
    /\ UNCHANGED <<routed, logged, pushes, got>>

\* CommandGroup(name, description): lines 57-62.
CommandGroup(name) ==
    /\ COMMANDS_REGISTRY' =
           Register(COMMANDS_REGISTRY, name, GroupEntry(name, NoSubcommands))
    /\ UNCHANGED <<routed, logged, pushes, got>>

\* @group.command(name, ...) applied to func, for the group registered as g:
\* lines 64-78.
command(g, name, func, autocomplete) ==
    /\ g \in DOMAIN COMMANDS_REGISTRY
    /\ COMMANDS_REGISTRY[g].group
    /\ COMMANDS_REGISTRY' =
           [COMMANDS_REGISTRY EXCEPT
              ![g].subcommands = DictSet(@, name, SubEntry(name, func, autocomplete))]
    /\ UNCHANGED <<routed, logged, pushes, got>>

\* CommandGroup.get_data (lines 80-89) and the "data" of a top-level command
\* (lines 95-102): the name and the names of the subcommands defined under it.
CommandData(entry) ==
    [name |-> entry.name,
     options |-> IF entry.group THEN DOMAIN entry.subcommands ELSE {}]

\* What load_cogs leaves in the registry (bot_worker.py line 188):
\* general.py's ping, troll.py's troll spam, info.py's info server.
CogsRegistry ==
    [n \in {"ping", "troll", "info"} |->
       CASE n = "ping" -> CommandEntry("ping", "ping_command", "None")
         [] n = "troll" ->
              GroupEntry("troll",
                  [x \in {"spam"} |-> SubEntry("spam", "troll_spam", "None")])
         [] n = "info" ->
              GroupEntry("info",
                  [x \in {"server"} |->
                       SubEntry("server", "info_server", "info_autocomplete")])]

-----------------------------------------------------------------------------
(* get_arg: controller_commands.py lines 33-53.                            *)

\* A search that looks at the top level only.
RECURSIVE search_top_level(_, _)
search_top_level(opts, name) ==
    IF opts = <<>> THEN Null
    ELSE LET o == Head(opts) IN
         IF o.type \notin {SUB_COMMAND, SUB_COMMAND_GROUP} /\ o.name = name
         THEN o.value
         ELSE search_top_level(Tail(opts), name)

get_arg_top_level(interaction, name, default) ==
    LET val == search_top_level(interaction.data.options, name)
    IN IF val # Null THEN val ELSE default

\* A search that never looks past the first subcommand option it meets.
RECURSIVE search_first_branch(_, _)
search_first_branch(opts, name) ==
    IF opts = <<>> THEN Null
    ELSE LET o == Head(opts) IN
         IF o.type \in {SUB_COMMAND, SUB_COMMAND_GROUP}
         THEN search_first_branch(o.options, name)
         ELSE IF o.name = name
         THEN o.value
         ELSE search_first_branch(Tail(opts), name)

\* Lines 42-50; Null is Python's None.
RECURSIVE search_options(_, _)
search_options(opts, name) ==
    IF opts = <<>> THEN Null
    ELSE LET o == Head(opts) IN
         IF o.type \in {SUB_COMMAND, SUB_COMMAND_GROUP}
         THEN LET res == search_options(o.options, name) IN
              IF res # Null THEN res ELSE search_options(Tail(opts), name)
         ELSE IF o.name = name
         THEN o.value
         ELSE search_options(Tail(opts), name)

\* Lines 38-39 and 52-53.
get_arg(interaction, name, default) ==
    LET val == search_options(interaction.data.options, name)
    IN IF val # Null THEN val ELSE default

\* The option lists of the payloads.
SpamOptions == <<Leaf("text", OPTION_STRING, StrVal("hi")), Leaf("count", OPTION_INTEGER, IntVal(3))>>

OptionLists ==
    { <<>>,
      <<Sub("spam", SUB_COMMAND, SpamOptions)>>,
      <<Sub("say", SUB_COMMAND, <<>>)>>,
      <<Sub("server", SUB_COMMAND, <<Leaf("server", OPTION_STRING, StrVal("home"))>>)>>,
      <<Sub("nope", SUB_COMMAND, <<>>)>>,
      <<Sub("spam", SUB_COMMAND_GROUP, SpamOptions)>>,
      <<Leaf("user", OPTION_STRING, StrVal("bob")), Sub("spam", SUB_COMMAND, SpamOptions)>>,
      <<Leaf("text", OPTION_STRING, StrVal("top")), Leaf("count", OPTION_INTEGER, IntVal(0))>> }

Interactions ==
    { Interaction(ty, n, opts) :
        ty \in {2, 4}, n \in {"ping", "troll", "echo", "info", "nope"},
        opts \in OptionLists }

\* Payloads with a subcommand inside a subcommand group, and with options
\* after a subcommand option.
SpamThenLeaves ==
    <<Sub("spam", SUB_COMMAND, SpamOptions),
      Leaf("text", OPTION_STRING, StrVal("top")),
      Leaf("user", OPTION_STRING, StrVal("bob"))>>

GroupSpam == <<Sub("fun", SUB_COMMAND_GROUP, <<Sub("spam", SUB_COMMAND, SpamOptions)>>)>>

DeepOptionLists ==
    OptionLists \cup
    { SpamThenLeaves,
      GroupSpam,
      <<Sub("fun", SUB_COMMAND_GROUP, <<Sub("say", SUB_COMMAND, <<>>)>>),
        Leaf("count", OPTION_INTEGER, IntVal(0))>> }

DeepInteractions ==
    { Interaction(ty, "troll", opts) : ty \in {2, 4}, opts \in DeepOptionLists }

ArgNames == {"text", "count", "user", "server"}

Defaults == {Null, IntVal(5)}

\* One call of get_arg.
GetArg(interaction, name, default) ==
    /\ got' = <<[interaction |-> interaction, name |-> name, default |-> default,
                 value |-> get_arg(interaction, name, default)]>>
    /\ UNCHANGED <<COMMANDS_REGISTRY, routed, logged, pushes>>

-----------------------------------------------------------------------------
(* handle_interaction: controller_worker.py lines 289-385.                 *)

\* Lines 298-311: the command path shown in the UI.
FullCommand(data) ==
    LET current_options == data.data.options
        first == current_options[1]
    IN <<data.data.name>> \o
       (IF current_options # <<>> /\ first.type \in {SUB_COMMAND, SUB_COMMAND_GROUP}
        THEN <<first.name>> \o
             (IF first.type = SUB_COMMAND_GROUP /\ first.options # <<>>
                 /\ first.options[1].type = SUB_COMMAND
              THEN <<first.options[1].name>>
              ELSE <<>>)
        ELSE <<>>)

\* Lines 295 and 313-348: the 'command_used' events sent to the UI.
CommandUsed(data) ==
    IF data.data.name # "embed" /\ data.type # 4
    THEN <<FullCommand(data)>>
    ELSE <<>>

\* A router that awaits the function it has chosen twice.
InvokeTwice(entry, type) ==
    IF type = 4
    THEN IF entry.autocomplete # "None"
         THEN <<entry.autocomplete, entry.autocomplete>> ELSE <<>>
    ELSE <<entry.callback, entry.callback>>

\* Lines 366-370 and 376-380: the functions awaited for a resolved entry.
Invoke(entry, type) ==
    IF type = 4
    THEN IF entry.autocomplete # "None" THEN <<entry.autocomplete>> ELSE <<>>
    ELSE <<entry.callback>>

\* Line 360: the option that names the subcommand, <<>> if there is none.
SubOption(options) ==
    IF options # <<>> /\ options[1].type = SUB_COMMAND
    THEN <<options[1]>>
    ELSE None

\* The interaction responses sent: every handler answers the interaction it
\* is given (defer, send_response or send_autocomplete_result); the router
\* itself sends nothing.
Responses(invoked) == invoked

\* Lines 353-382: the functions awaited and the warning logged.
Route(reg, data) ==
    LET command_name == data.data.name
        cmd_def == Get(reg, command_name)
    IN IF cmd_def = None
       THEN [invoked |-> <<>>, warning |-> {"Unknown command received"}]
       ELSE IF cmd_def[1].group
       THEN LET sub == SubOption(data.data.options) IN
            IF sub = None
            THEN [invoked |-> <<>>, warning |-> {}]
            ELSE LET sub_cmd == Get(cmd_def[1].subcommands, sub[1].name) IN
                 IF sub_cmd = None
                 THEN [invoked |-> <<>>, warning |-> {"Unknown subcommand"}]
                 ELSE [invoked |-> Invoke(sub_cmd[1], data.type), warning |-> {}]
       ELSE IF cmd_def[1].callback # "None"
       THEN [invoked |-> Invoke(cmd_def[1], data.type), warning |-> {}]
       ELSE [invoked |-> <<>>, warning |-> {}]

\* The effect of one handle_interaction(data) on the router's state.
Dispatch(data) ==
    LET r == Route(COMMANDS_REGISTRY, data) IN
    /\ routed' = <<[interaction |-> data, command_used |-> CommandUsed(data),
                    invoked |-> r.invoked, responses |-> Responses(r.invoked),
                    after |-> logged, raised |-> FALSE]>>
    /\ logged' = logged \cup r.warning

\* handle_interaction(data) called on its own, its handler run to the end.
HandleInteraction(data) ==
    /\ Dispatch(data)
    /\ UNCHANGED <<COMMANDS_REGISTRY, pushes, got>>

-----------------------------------------------------------------------------
(* The tasks listen() creates: register_commands (controller_worker.py     *)
(* lines 123-182) and handle_interaction (lines 289-385).                  *)

\* start() holds the ClientSession in an `async with` (lines 41-48): once
\* start() has returned the session is closed and session.put raises.
SessionClosed == gw_pc = "returned"

\* Lines 132-144: the command list sent.
PushBody(reg) == {CommandData(reg[n]) : n \in DOMAIN reg}

\* register_commands from its start to its first suspension in session.put
\* (lines 125-175), or to its end when session.put raises at once (181-182).
RegisterCommands(k) ==
    /\ spawned[k].kind = "register_commands"
    /\ spawned[k].state = "pending"
    /\ IF SessionClosed
       THEN /\ spawned' = [spawned EXCEPT ![k].state = "done",
                                          ![k].outcome = "error",
                                          ![k].ended = nrecv]
            /\ logged' = logged \cup {"Error registering commands"}
            /\ UNCHANGED pushes
       ELSE /\ spawned' = [spawned EXCEPT ![k].state = "awaiting",
                                          ![k].pushed = TRUE]
            /\ pushes' = Append(pushes,
                            [user_id |-> identity.user_id,
                             commands |-> PushBody(COMMANDS_REGISTRY)])
            /\ UNCHANGED logged
    /\ UNCHANGED <<ws, is_running, sequence, heartbeat_interval,
                   last_heartbeat_sent, latency, identity, gw_pc, hb, sock, now,
                   nrecv, wire>>
    /\ UNCHANGED <<COMMANDS_REGISTRY, routed, got>>

\* The statuses and failures of the PUT.
PutOutcomes == {"registered", "rejected", "error"}

\* Lines 176-182: what is logged for each.
RegistrationLog(outcome) ==
    CASE outcome = "registered" -> "Root Commands Registered"
      [] outcome = "rejected" -> "Failed to register commands"
      [] outcome = "error" -> "Error registering commands"

\* A register_commands for which a failed registration ends the session.
FatalRegisterResponse(k, outcome) ==
    /\ spawned[k].kind = "register_commands"
    /\ spawned[k].state = "awaiting"
    /\ spawned' = [spawned EXCEPT ![k].state = "done", ![k].outcome = outcome,
                                  ![k].ended = nrecv]
    /\ logged' = logged \cup {RegistrationLog(outcome)}
    /\ is_running' = (is_running /\ outcome = "registered")
    /\ UNCHANGED <<ws, sequence, heartbeat_interval, last_heartbeat_sent,
                   latency, identity, gw_pc, hb, sock, now, nrecv, wire>>
    /\ UNCHANGED <<COMMANDS_REGISTRY, routed, pushes, got>>

\* The PUT answers or fails: lines 175-182.
RegisterResponse(k, outcome) ==
    /\ spawned[k].kind = "register_commands"
    /\ spawned[k].state = "awaiting"
    /\ spawned' = [spawned EXCEPT ![k].state = "done", ![k].outcome = outcome,
                                  ![k].ended = nrecv]
    /\ logged' = logged \cup {RegistrationLog(outcome)}
    /\ UNCHANGED <<ws, is_running, sequence, heartbeat_interval,
                   last_heartbeat_sent, latency, identity, gw_pc, hb, sock, now,
                   nrecv, wire>>
    /\ UNCHANGED <<COMMANDS_REGISTRY, routed, pushes, got>>

\* A handle_interaction task from its start to the first suspension of the
\* handler it awaits (every handler awaits an HTTP request), or to its end
\* when it awaits none.
StartInteraction(k) ==
    /\ spawned[k].kind = "handle_interaction"
    /\ spawned[k].state = "pending"
    /\ Dispatch(spawned[k].d)
    /\ spawned' = IF Route(COMMANDS_REGISTRY, spawned[k].d).invoked = <<>>
                  THEN [spawned EXCEPT ![k].state = "done", ![k].ended = nrecv]
                  ELSE [spawned EXCEPT ![k].state = "in_handler"]
    /\ UNCHANGED <<ws, is_running, sequence, heartbeat_interval,
                   last_heartbeat_sent, latency, identity, gw_pc, hb, sock, now,
                   nrecv, wire>>
    /\ UNCHANGED <<COMMANDS_REGISTRY, pushes, got>>

\* The handler raises before it has answered the interaction; the exception
\* is caught at lines 384-385, which log it, and handle_interaction ends.
HandlerRaisesAtOnce(k) ==
    /\ spawned[k].kind = "handle_interaction"
    /\ spawned[k].state = "pending"
    /\ Route(COMMANDS_REGISTRY, spawned[k].d).invoked # <<>>
    /\ routed' = <<[interaction |-> spawned[k].d,
                    command_used |-> CommandUsed(spawned[k].d),
                    invoked |-> Route(COMMANDS_REGISTRY, spawned[k].d).invoked,
                    responses |-> <<>>, after |-> logged, raised |-> TRUE]>>
    /\ logged' = logged \cup {"Error handling interaction"}
    /\ spawned' = [spawned EXCEPT ![k].state = "done", ![k].outcome = "raised",
                                  ![k].ended = nrecv]
    /\ UNCHANGED <<ws, is_running, sequence, heartbeat_interval,
                   last_heartbeat_sent, latency, identity, gw_pc, hb, sock, now,
                   nrecv, wire>>
    /\ UNCHANGED <<COMMANDS_REGISTRY, pushes, got>>

\* A router that an exception of a handler brings down.
HandlerRaisesAndCrashes(k) ==
    /\ spawned[k].kind = "handle_interaction"
    /\ spawned[k].state = "in_handler"
    /\ spawned' = [j \in DOMAIN spawned |->
                      [spawned[j] EXCEPT !.state = "done", !.outcome = "raised",
                                         !.ended = nrecv]]
    /\ logged' = logged \cup {"Error handling interaction"}
    /\ is_running' = FALSE
    /\ UNCHANGED <<ws, sequence, heartbeat_interval, last_heartbeat_sent,
                   latency, identity, gw_pc, hb, sock, now, nrecv, wire>>
    /\ UNCHANGED <<COMMANDS_REGISTRY, routed, pushes, got>>

\* The handler raises after its first suspension: lines 384-385 again.
HandlerRaises(k) ==
    /\ spawned[k].kind = "handle_interaction"
    /\ spawned[k].state = "in_handler"
    /\ spawned' = [spawned EXCEPT ![k].state = "done", ![k].outcome = "raised",
                                  ![k].ended = nrecv]
    /\ logged' = logged \cup {"Error handling interaction"}
    /\ UNCHANGED <<ws, is_running, sequence, heartbeat_interval,
                   last_heartbeat_sent, latency, identity, gw_pc, hb, sock, now,
                   nrecv, wire>>
    /\ UNCHANGED <<COMMANDS_REGISTRY, routed, pushes, got>>

\* The handler returns and handle_interaction ends.
FinishInteraction(k) ==
    /\ spawned[k].kind = "handle_interaction"
    /\ spawned[k].state = "in_handler"
    /\ spawned' = [spawned EXCEPT ![k].state = "done", ![k].ended = nrecv]
    /\ UNCHANGED <<ws, is_running, sequence, heartbeat_interval,
                   last_heartbeat_sent, latency, identity, gw_pc, hb, sock, now,
                   nrecv, wire>>
    /\ UNCHANGED ctlVars

InitCtl ==
    /\ COMMANDS_REGISTRY = CogsRegistry
    /\ routed = <<>>
    /\ logged = {}
    /\ pushes = <<>>
    /\ got = <<>>

-----------------------------------------------------------------------------
(* The specifications, each with the rest of the program at rest: the      *)
(* extension runtime; the gateway client's socket and heartbeats; the      *)
(* gateway client's read loop with the tasks it creates; the registry and  *)
(* the router; get_arg.                                                    *)

Init == InitExt /\ InitGw /\ InitCtl

NextExt ==
    \/ \E f \in Filenames, s \in Scripts : Load(f, s) /\ UNCHANGED <<gwVars, ctlVars>>
    \/ \E f \in Filenames : Unload(f) /\ UNCHANGED <<gwVars, ctlVars>>
    \/ \E i \in 1..Len(runs) : TaskCancelled(i) /\ UNCHANGED <<gwVars, ctlVars>>
    \/ \E i \in 1..Len(runs) : TaskFinished(i) /\ UNCHANGED <<gwVars, ctlVars>>
    \/ \E i \in 1..Len(runs) : Resume(i) /\ UNCHANGED <<gwVars, ctlVars>>

NextGw ==
    \/ Start /\ UNCHANGED <<extVars, ctlVars>>
    \/ StartFails /\ UNCHANGED <<extVars, ctlVars>>
    \/ \E m \in Messages : Recv(m) /\ UNCHANGED <<extVars, ctlVars>>
    \/ ReadLoopEnds /\ UNCHANGED <<extVars, ctlVars>>
    \/ TransportLost /\ UNCHANGED <<extVars, ctlVars>>
    \/ \E k \in DOMAIN hb : HeartbeatStep(k) /\ UNCHANGED <<extVars, ctlVars>>
    \/ Tick /\ UNCHANGED <<extVars, ctlVars>>

NextTasks ==
    \/ Start /\ UNCHANGED <<extVars, ctlVars>>
    \/ \E m \in Messages : Recv(m) /\ UNCHANGED <<extVars, ctlVars>>
    \/ ReadLoopEnds /\ UNCHANGED <<extVars, ctlVars>>
    \/ \E k \in DOMAIN spawned : RegisterCommands(k) /\ UNCHANGED extVars
    \/ \E k \in DOMAIN spawned, o \in PutOutcomes :
           RegisterResponse(k, o) /\ UNCHANGED extVars
    \/ \E k \in DOMAIN spawned : StartInteraction(k) /\ UNCHANGED extVars
    \/ \E k \in DOMAIN spawned : FinishInteraction(k) /\ UNCHANGED extVars
    \/ \E k \in DOMAIN spawned : HandlerRaisesAtOnce(k) /\ UNCHANGED extVars
    \/ \E k \in DOMAIN spawned : HandlerRaises(k) /\ UNCHANGED extVars

NextRouter ==
    \/ \E def \in Definitions :
           controller_command(def[1], def[2], def[3])
           /\ UNCHANGED <<extVars, gwVars>>
    \/ \E g \in GroupNames : CommandGroup(g) /\ UNCHANGED <<extVars, gwVars>>
    \/ \E g \in GroupNames, def \in SubDefinitions :
           command(g, def[1], def[2], def[3]) /\ UNCHANGED <<extVars, gwVars>>
    \/ \E data \in Interactions :
           HandleInteraction(data) /\ UNCHANGED <<extVars, gwVars>>

NextArgs ==
    \E data \in Interactions, name \in ArgNames, default \in Defaults :
        GetArg(data, name, default) /\ UNCHANGED <<extVars, gwVars>>

SpecExt == Init /\ [][NextExt]_vars

\* While the event loop runs, a task asked to cancel takes its CancelledError
\* at its next step (cancel() wakes keep_alive's sleep, lines 1140-1145)
\* and a run_script whose awaited task is done is resumed.
SpecExtLive ==
    /\ Init
    /\ [][NextExt]_vars
    /\ \A i \in 1..MaxRuns :
          /\ WF_vars(i <= Len(runs) /\ TaskCancelled(i)
                                    /\ UNCHANGED <<gwVars, ctlVars>>)
          /\ WF_vars(i <= Len(runs) /\ Resume(i)
                                    /\ UNCHANGED <<gwVars, ctlVars>>)

SpecTasks == Init /\ [][NextTasks]_vars

SpecRouter == Init /\ [][NextRouter]_vars

SpecArgs == Init /\ [][NextArgs]_vars

NextDeepArgs ==
    \E data \in DeepInteractions, name \in ArgNames, default \in Defaults :
        GetArg(data, name, default) /\ UNCHANGED <<extVars, gwVars>>

SpecDeepArgs == Init /\ [][NextDeepArgs]_vars

SpecGw == Init /\ [][NextGw]_vars

\* The frames that start, acknowledge and end the heartbeats: Hello,
\* HeartbeatAck, and a TEXT message that json.loads rejects.
HeartbeatMessages ==
    {m \in Messages : m.type = "TEXT" /\ (~m.json \/ m.data.op \in {10, 11})}

\* The frames read before the connection ends, where termination is checked.
MaxLiveFrames == 2

\* The gateway client with time that goes on after the connection has ended:
\* the clock advances and a heartbeat task whose sleep is over runs.
NextGwLive ==
    \/ Start /\ UNCHANGED <<extVars, ctlVars>>
    \/ StartFails /\ UNCHANGED <<extVars, ctlVars>>
    \/ \E m \in HeartbeatMessages :
           nrecv < MaxLiveFrames /\ Recv(m) /\ UNCHANGED <<extVars, ctlVars>>
    \/ ReadLoopEnds /\ UNCHANGED <<extVars, ctlVars>>
    \/ TransportLost /\ UNCHANGED <<extVars, ctlVars>>
    \/ \E k \in DOMAIN hb : HeartbeatStep(k) /\ UNCHANGED <<extVars, ctlVars>>
    \/ Tick /\ UNCHANGED <<extVars, ctlVars>>
    \/ TickPastBound /\ UNCHANGED <<extVars, ctlVars>>

SpecGwLive ==
    /\ Init
    /\ [][NextGwLive]_vars
    /\ WF_vars(Tick /\ UNCHANGED <<extVars, ctlVars>>)
    /\ WF_vars(TickPastBound /\ UNCHANGED <<extVars, ctlVars>>)
    /\ \A k \in 1..MaxLiveFrames :
          WF_vars(k \in DOMAIN hb /\ HeartbeatStep(k)
                                  /\ UNCHANGED <<extVars, ctlVars>>)

\* The gateway client when start() is called again after it has returned.
NextRestart ==
    \/ Start /\ UNCHANGED <<extVars, ctlVars>>
    \/ StartFails /\ UNCHANGED <<extVars, ctlVars>>
    \/ Restart /\ UNCHANGED <<extVars, ctlVars>>
    \/ \E m \in Messages : Recv(m) /\ UNCHANGED <<extVars, ctlVars>>
    \/ ReadLoopEnds /\ UNCHANGED <<extVars, ctlVars>>
    \/ TransportLost /\ UNCHANGED <<extVars, ctlVars>>
    \/ \E k \in DOMAIN hb : HeartbeatStep(k) /\ UNCHANGED <<extVars, ctlVars>>
    \/ Tick /\ UNCHANGED <<extVars, ctlVars>>

SpecRestart == Init /\ [][NextRestart]_vars

-----------------------------------------------------------------------------
(* The extension runtime's claims.                                         *)

\* What a run created and the session still holds.
OwnedCommands(i) == {c \in commands : c[2] = i}

OwnedListeners(i) == {l \in extra_events : l[2] = i}

RunsOf(filename) == {i \in 1..Len(runs) : runs[i].filename = filename}

\* A unit is resident: its run awaits a task nobody has asked to cancel.
Resident(i) == runs[i].pc = "await_task" /\ runs[i].task = "pending"

\* C1: when a script is loaded under a filename whose earlier load registered
\* something and is still resident, then once the new load has registered,
\* nothing the earlier load created is left in the session and everything the
\* new load created is there.
C1_ReloadReplaces ==
    [][\A f \in Filenames, s \in Scripts :
          Load(f, s) =>
            LET j == Len(runs') IN
            runs'[j].kind = "keep_alive" =>
              /\ \A i \in RunsOf(f) :
                    (runs[i].kind = "keep_alive" /\ Resident(i)) =>
                       /\ {c \in commands' : c[2] = i} = {}
                       /\ {l \in extra_events' : l[2] = i} = {}
              /\ {c \in commands' : c[2] = j} # {}
                    \/ {l \in extra_events' : l[2] = j} # {}]_vars

\* C2: in every state each filename has at most one resident unit, and at most
\* one of its units that went active still has registrations in the session.
C2_AtMostOneActiveUnit ==
    \A f \in Filenames :
       /\ Cardinality({i \in RunsOf(f) : Resident(i)}) <= 1
       /\ Cardinality({i \in RunsOf(f) :
              /\ runs[i].kind = "keep_alive"
              /\ OwnedCommands(i) \cup OwnedListeners(i) # {}}) <= 1

\* C3: stop_script(f) takes out of the session exactly the commands and
\* listeners recorded for f; every other command and listener, the records of
\* the other filenames, the task table and every task but the one recorded
\* for f stay as they were.
C3_UnloadFrame ==
    [][\A f \in Filenames :
          Unload(f) =>
            LET names == IF f \in DOMAIN script_commands
                         THEN script_commands[f] ELSE {}
                lsts == IF f \in DOMAIN script_listeners
                        THEN script_listeners[f] ELSE {}
            IN
            /\ commands' = {c \in commands : c[1] \notin names}
            /\ extra_events' = extra_events \ lsts
            /\ \A g \in Filenames \ {f} :
                  /\ (g \in DOMAIN script_commands') = (g \in DOMAIN script_commands)
                  /\ g \in DOMAIN script_commands =>
                        script_commands'[g] = script_commands[g]
                  /\ (g \in DOMAIN script_listeners') = (g \in DOMAIN script_listeners)
                  /\ g \in DOMAIN script_listeners =>
                        script_listeners'[g] = script_listeners[g]
            /\ running_tasks' = running_tasks
            /\ \A i \in 1..Len(runs) :
                  (f \notin DOMAIN running_tasks \/ running_tasks[f] # i) =>
                     runs'[i] = runs[i]]_vars

\* A unit of a.py was stopped and lost its registrations while a unit of b.py
\* and the host's own command and listener are still there.
C3_Witness ==
    \E i \in RunsOf("a.py"), k \in RunsOf("b.py") :
       /\ runs[i].kind = "keep_alive"
       /\ runs[i].task = "must_cancel"
       /\ OwnedCommands(i) \cup OwnedListeners(i) = {}
       /\ Resident(k)
       /\ OwnedCommands(k) # {}
       /\ OwnedListeners(k) # {}
       /\ HostCommands \subseteq commands
       /\ HostListeners \subseteq extra_events

C5_FailedLoadCleansUp ==
    \A i \in 1..Len(runs) :
       runs[i].raised =>
          /\ runs[i].events = <<"script_start", "script_error", "script_end">>
          /\ OwnedCommands(i) \cup OwnedListeners(i) = {}

\* The latest load of a filename, 0 when it was never loaded.
LastRunOf(filename) ==
    IF RunsOf(filename) = {} THEN 0
    ELSE CHOOSE i \in RunsOf(filename) : \A j \in RunsOf(filename) : j <= i

\* The filename was loaded and then stopped with no load since: the task of
\* its latest load has been asked to cancel.
AlreadyUnloaded(filename) ==
    /\ LastRunOf(filename) # 0
    /\ runs[LastRunOf(filename)].task \in {"must_cancel", "cancelled"}

\* The outcomes a run has reported: "Script executed successfully.",
\* script_error, "Script stopped by user.".
Outcomes(i) ==
    {k \in DOMAIN runs[i].events :
         runs[i].events[k] \in {"executed", "script_error", "stopped"}}

\* C25: in every state, stop_script(f) for a filename that was never loaded,
\* or that has already been stopped since its last load, changes no command,
\* no listener and no task and emits no event.
C25_UnloadIdempotent ==
    \A f \in Filenames :
       (LoopRunning /\ (LastRunOf(f) = 0 \/ AlreadyUnloaded(f))) =>
          LET r == StopScript(f, commands, extra_events, script_commands,
                              script_listeners, running_tasks, runs) IN
          /\ r.commands = commands
          /\ r.extra_events = extra_events
          /\ r.runs = runs
          /\ r.messages = {}

\* C26: every run_script call that has ended reported exactly one outcome:
\* executed, failed or stopped.
C26_ExactlyOneOutcome ==
    \A i \in 1..Len(runs) :
       runs[i].pc # "await_task" => Cardinality(Outcomes(i)) = 1

\* C27: every pending task that a load started is the task recorded for its
\* filename in running_tasks.
C27_PendingTaskIsRecorded ==
    \A i \in 1..Len(runs) :
       runs[i].task = "pending" =>
          /\ runs[i].filename \in DOMAIN running_tasks
          /\ running_tasks[runs[i].filename] = i

\* C28: stop_script(f) asks the task of every resident unit of f to cancel,
\* and a task asked to cancel is eventually cancelled with its run ended and
\* "Script stopped by user." reported, as long as the event loop runs.
C28_UnloadEventuallyCancels ==
    /\ [][\A f \in Filenames :
             Unload(f) =>
                \A i \in RunsOf(f) :
                   Resident(i) => runs'[i].task = "must_cancel"]_vars
    /\ \A i \in 1..MaxRuns :
          (i <= Len(runs) /\ runs[i].task = "must_cancel") ~>
             (\/ ~LoopRunning
              \/ /\ i <= Len(runs)
                 /\ runs[i].task = "cancelled"
                 /\ runs[i].pc = "done"
                 /\ "stopped" \in {runs[i].events[k] : k \in DOMAIN runs[i].events})

\* C29: when stop_script(f) returns, no command record, no listener record
\* and no running-task record is left for f.
C29_UnloadClearsBookkeeping ==
    [][\A f \in Filenames :
          Unload(f) =>
             /\ f \notin DOMAIN script_commands'
             /\ f \notin DOMAIN script_listeners'
             /\ f \notin DOMAIN running_tasks']_vars

\* C30: when stop_script(f) finds a recorded task that is not done, that task
\* is done by the time stop_script returns.
C30_UnloadAwaitsCancellation ==
    [][\A f \in Filenames :
          (/\ Unload(f)
           /\ f \in DOMAIN running_tasks
           /\ runs[running_tasks[f]].task \in {"pending", "must_cancel"}) =>
              runs'[running_tasks[f]].task \in {"cancelled", "finished"}]_vars

\* What is recorded for a filename, nothing when it has no record.
Recorded(d, filename) == IF filename \in DOMAIN d THEN d[filename] ELSE {}

\* C31: after a load whose execution did not raise, the commands and the
\* listeners recorded for the filename are exactly what the session holds
\* after the execution and did not hold before it.
C31_RecordedIsDifference ==
    [][\A f \in Filenames, s \in Scripts :
          Load(f, s) =>
            LET j == Len(runs')
                before == StopPrevious(f)
            IN
            (~runs'[j].raised /\ runs'[j].pc # "exited") =>
               /\ Recorded(script_commands', f) =
                     CommandNames(commands') \ CommandNames(before.commands)
               /\ Recorded(script_listeners', f) =
                     extra_events' \ before.extra_events]_vars

\* C32: a load starts a keep_alive task exactly when the execution of its
\* script left a command or a listener of its own in the session.
C32_KeepAliveIffRegistered ==
    [][\A f \in Filenames, s \in Scripts :
          Load(f, s) =>
            LET j == Len(runs') IN
            (runs'[j].kind = "keep_alive" /\ runs'[j].task = "pending")
               <=> ({c \in commands' : c[2] = j} # {}
                      \/ {l \in extra_events' : l[2] = j} # {})]_vars

\* C33: stop_script(f) asks for the cancellation of the task of every load of
\* f that has an operation of its script still running, and a background task
\* asked to cancel ends with "Script stopped by user." reported, as long as
\* the event loop runs.
C33_BackgroundTaskTracked ==
    /\ [][\A f \in Filenames :
             Unload(f) =>
                \A i \in RunsOf(f) :
                   runs[i].ops > 0 =>
                      runs'[i].task \in {"must_cancel", "cancelled"}]_vars
    /\ \A i \in 1..MaxRuns :
          (/\ i <= Len(runs)
           /\ runs[i].kind = "background"
           /\ runs[i].task = "must_cancel") ~>
             (\/ ~LoopRunning
              \/ /\ i <= Len(runs)
                 /\ runs[i].pc = "done"
                 /\ "stopped" \in {runs[i].events[k] : k \in DOMAIN runs[i].events})

\* C34: no run_script call executes the statements of its script more than
\* once.
C34_CodeExecutedAtMostOnce ==
    \A i \in 1..Len(runs) : runs[i].execs <= 1

\* C40: the command names recorded for two different filenames are disjoint
\* and so are the listeners recorded for them.
C40_RecordsDisjoint ==
    \A f \in Filenames, g \in Filenames :
       f # g =>
          /\ Recorded(script_commands, f) \cap Recorded(script_commands, g) = {}
          /\ Recorded(script_listeners, f) \cap Recorded(script_listeners, g) = {}

\* Both filenames have commands recorded, one of them listeners as well, and
\* the session holds the commands of both.
C40_Witness ==
    /\ Recorded(script_commands, "a.py") # {}
    /\ Recorded(script_commands, "b.py") # {}
    /\ Recorded(script_listeners, "a.py") # {}
    /\ Recorded(script_commands, "a.py") \cup Recorded(script_commands, "b.py")
          \subseteq CommandNames(commands)

-----------------------------------------------------------------------------
(* The gateway client's claims.                                            *)

\* C6: once a heartbeat task has slept through two intervals in a row with no
\* HeartbeatAck in between, the connection is torn down: the socket is no
\* longer open and the client is no longer marked running.
C6_StaleConnectionTornDown ==
    \A k \in DOMAIN hb :
       hb[k].missed >= 2 => (ws # "open" /\ ~is_running)

\* C7: after the socket has closed or failed, whichever way the read loop
\* ended, the client is no longer marked running.
C7_ClosedMeansNotRunning ==
    (gw_pc = "returned" /\ ws = "closed") => ~is_running

\* C8: Identify frames are sent one per Hello handled and never without one;
\* each Hello starts one heartbeat task and leaves its interval, in seconds,
\* in heartbeat_interval.
C8_IdentifyPerHello ==
    /\ wire.identify = wire.hello
    /\ Len(hb) = wire.hello
    /\ wire.hello > 0 =>
          heartbeat_interval.num * 1000 = wire.hello_ms * heartbeat_interval.den
    /\ wire.hello = 0 => heartbeat_interval = [num |-> 41250, den |-> 1000]

\* Two Hello frames were handled, the second announcing 2000 ms.
C8_Witness ==
    /\ wire.hello = 2
    /\ wire.identify = 2
    /\ wire.hello_ms = 2000

\* C9: self.sequence is the sequence number of the last dispatch frame that
\* carried one (None before any), and the last Heartbeat sent carried the
\* value that held when it was sent.
C9_HeartbeatCarriesLastSequence ==
    /\ sequence = wire.dispatch_seq
    /\ wire.last_hb # Null => wire.last_hb.d = wire.hb_expect

\* A dispatch frame without a sequence number was read after sequence 3 had
\* arrived, and the last Heartbeat sent carried 3.
C9_Witness ==
    /\ wire.kept
    /\ sequence = Some(3)
    /\ wire.last_hb # Null
    /\ wire.last_hb.d = Some(3)

\* C10: latency is never negative, and after a HeartbeatAck that followed a
\* sent Heartbeat it is the time from the last Heartbeat sent to that ack.
C10_LatencyFromLastHeartbeat ==
    /\ latency # None => latency[1] >= 0
    /\ wire.ack_after # None => latency = wire.ack_after

\* An ack arrived a positive time after the last Heartbeat.
C10_Witness ==
    /\ wire.ack_after # None
    /\ latency # None
    /\ latency[1] > 0

\* C36: when start() is called again on the same client, the new connection
\* begins with no sequence number, no session identity and no latency.
C36_RestartStartsFresh ==
    [][Restart =>
          /\ sequence' = None
          /\ identity' = [session_id |-> "None", user_id |-> "None",
                          username |-> "None"]
          /\ latency' = None]_vars

\* The heartbeat tasks that have sent a Heartbeat and sleep until the next.
LiveHeartbeats == {k \in DOMAIN hb : hb[k].state = "sleeping"}

\* C37: at no time does the client have more than one heartbeat task that is
\* sending Heartbeat frames.
C37_OneHeartbeatTask == Cardinality(LiveHeartbeats) <= 1

\* C38: a heartbeat task that runs when the socket is no longer open sends
\* nothing and ends, and once start() has returned every heartbeat task
\* eventually ends.
C38_HeartbeatsEnd ==
    /\ [][\A k \in DOMAIN hb :
             (HeartbeatStep(k) /\ ws # "open") =>
                 /\ wire' = wire
                 /\ hb'[k].state = "done"]_vars
    /\ \A k \in 1..MaxLiveFrames :
          (gw_pc = "returned" /\ k \in DOMAIN hb) ~>
              (k \in DOMAIN hb /\ hb[k].state = "done")

\* The read loop has ended, a heartbeat task that had sent a Heartbeat and
\* gone to sleep has ended, and the last frame on the wire is the one it
\* sent while the socket was open.
C38_Witness ==
    /\ gw_pc = "returned"
    /\ ws = "closed"
    /\ hb # <<>>
    /\ \A k \in DOMAIN hb : hb[k].state = "done"
    /\ wire.last_hb # Null
    /\ now > 1000 * (MaxTicks + 1)

-----------------------------------------------------------------------------
(* The claims about the tasks of the read loop.                            *)

RegisterTasks == {k \in DOMAIN spawned : spawned[k].kind = "register_commands"}

InteractionTasks == {k \in DOMAIN spawned : spawned[k].kind = "handle_interaction"}

\* C11: every READY sets session id, user id and name from its payload and is
\* followed by one PUT of the whole registry (every top-level command, every
\* group with all its subcommands) to the command-definition endpoint; no PUT
\* is issued before a READY. Checked on the tasks as they end: one that has
\* ended has issued its PUT.
C11_ReadyPushesRegistry ==
    /\ RegisterTasks # {} =>
           identity = [session_id |-> ReadyFrame.d.session_id,
                       user_id |-> ReadyFrame.d.user.id,
                       username |-> ReadyFrame.d.user.username]
    /\ Len(pushes) <= Cardinality(RegisterTasks)
    /\ \A i \in DOMAIN pushes :
           /\ pushes[i].user_id = ReadyFrame.d.user.id
           /\ pushes[i].commands =
                  { [name |-> n,
                     options |-> IF COMMANDS_REGISTRY[n].group
                                 THEN DOMAIN COMMANDS_REGISTRY[n].subcommands
                                 ELSE {}] : n \in DOMAIN COMMANDS_REGISTRY }
    /\ \A k \in RegisterTasks : spawned[k].state = "done" => spawned[k].pushed

\* C12: the frames of a connection are handled in order and one at a time,
\* the handlers they start included: while the handling of an interaction is
\* not finished no later frame has been read, and no other interaction is
\* being handled.
C12_FramesHandledOneAtATime ==
    \A k \in InteractionTasks :
        spawned[k].state # "done" =>
            /\ nrecv = spawned[k].frame
            /\ \A j \in InteractionTasks : j # k => spawned[j].state = "done"

\* The frames the read loop cannot make sense of: text that is not JSON, a
\* Hello without heartbeat_interval, a READY without the identity fields.
Malformed(msg) ==
    /\ msg.type = "TEXT"
    /\ \/ ~msg.json
       \/ msg.data.op = 10 /\ "heartbeat_interval" \notin DOMAIN msg.data.d
       \/ /\ msg.data.op = 0
          /\ msg.data.t = "READY"
          /\ "session_id" \notin DOMAIN msg.data.d

\* C13: a malformed frame is dropped and the session goes on: after it the
\* read loop is still reading, the socket is open and the connection is
\* still marked running.
C13_MalformedFrameDropped ==
    [][\A m \in Messages :
           (Recv(m) /\ Malformed(m)) =>
               (gw_pc' = "listening" /\ ws' = "open" /\ is_running')]_vars

FailedRegistration(k) ==
    /\ spawned[k].kind = "register_commands"
    /\ spawned[k].state = "done"
    /\ spawned[k].outcome \in {"rejected", "error"}

\* C14: a registration that is rejected or fails is logged and nothing else:
\* the step in which it fails changes nothing of the connection, and every
\* INTERACTION_CREATE read after a failure still starts its handling.
C14_RegistrationFailureOnlyLogged ==
    [][/\ \A k \in DOMAIN spawned :
              (RegisterResponse(k, "rejected") \/ RegisterResponse(k, "error")
                  \/ (RegisterCommands(k) /\ SessionClosed)) =>
                  /\ UNCHANGED <<ws, is_running, sequence, heartbeat_interval,
                                 last_heartbeat_sent, latency, identity, gw_pc,
                                 hb, sock, nrecv>>
                  /\ \E line \in {"Failed to register commands",
                                    "Error registering commands"} :
                         logged' = logged \cup {line}
       /\ \A m \in Messages :
              (/\ Recv(m)
               /\ \E k \in DOMAIN spawned : FailedRegistration(k)
               /\ m.type = "TEXT" /\ m.json
               /\ m.data.t = "INTERACTION_CREATE") =>
                  /\ Len(spawned') = Len(spawned) + 1
                  /\ spawned'[Len(spawned')].kind = "handle_interaction"
                  /\ spawned'[Len(spawned')].d = m.data.d
                  /\ gw_pc' = "listening" /\ is_running'
      ]_vars

\* A registration was rejected; an INTERACTION_CREATE read after that has been
\* dispatched to its handler, and the connection is still running.
C14_Witness ==
    \E k \in DOMAIN spawned, j \in DOMAIN spawned :
        /\ FailedRegistration(k)
        /\ spawned[k].outcome = "rejected"
        /\ spawned[j].kind = "handle_interaction"
        /\ spawned[j].frame > spawned[k].ended
        /\ spawned[j].state = "done"
        /\ routed # <<>> /\ routed[1].invoked = <<"ping_command">>
        /\ is_running /\ gw_pc = "listening"

RaisedHandler(k) ==
    spawned[k].kind = "handle_interaction" /\ spawned[k].outcome = "raised"

\* C21: an exception of a handler stays inside its invocation: the step in
\* which it is caught changes nothing of the connection (the read loop goes
\* on) and no other task; an interaction in flight at that time, and one
\* arriving later, is still dispatched to its handler and can finish.
C21_HandlerErrorContained ==
    [][/\ \A k \in DOMAIN spawned :
              (HandlerRaisesAtOnce(k) \/ HandlerRaises(k)) =>
                  /\ UNCHANGED <<ws, is_running, sequence, heartbeat_interval,
                                 last_heartbeat_sent, latency, identity, gw_pc,
                                 hb, sock, nrecv>>
                  /\ "Error handling interaction" \in logged'
                  /\ \A j \in DOMAIN spawned \ {k} : spawned'[j] = spawned[j]
       /\ \A k \in DOMAIN spawned :
              (StartInteraction(k) /\ \E j \in DOMAIN spawned : RaisedHandler(j)) =>
                  /\ routed'[1].invoked = <<"ping_command">>
                  /\ routed'[1].responses = <<"ping_command">>
                  /\ spawned'[k].state = "in_handler"
       /\ \A m \in Messages :
              (/\ Recv(m)
               /\ \E j \in DOMAIN spawned : RaisedHandler(j)
               /\ m.type = "TEXT" /\ m.json
               /\ m.data.t = "INTERACTION_CREATE") =>
                  /\ Len(spawned') = Len(spawned) + 1
                  /\ spawned'[Len(spawned')].kind = "handle_interaction"
                  /\ spawned'[Len(spawned')].state = "pending"
                  /\ gw_pc' = "listening" /\ is_running'
      ]_vars

\* A handler raised while another interaction was in flight; that one and an
\* interaction that arrived after the exception both ran their handler to
\* the end, and the read loop is still reading.
C21_Witness ==
    \E k \in DOMAIN spawned, i \in DOMAIN spawned, j \in DOMAIN spawned :
        /\ RaisedHandler(k)
        /\ i # k /\ j # k /\ i # j
        /\ spawned[i].kind = "handle_interaction"
        /\ spawned[i].frame <= spawned[k].ended
        /\ spawned[i].state = "done" /\ spawned[i].outcome = "None"
        /\ spawned[j].kind = "handle_interaction"
        /\ spawned[j].frame > spawned[k].ended
        /\ spawned[j].state = "done" /\ spawned[j].outcome = "None"
        /\ is_running /\ gw_pc = "listening"

\* C22: when a handler raises before any response has been sent for the
\* interaction, the router answers the interaction with an error message.
C22_HandlerErrorAnswered ==
    [][\A k \in DOMAIN spawned :
           HandlerRaisesAtOnce(k) => routed'[1].responses # <<>>]_vars

-----------------------------------------------------------------------------
(* The claims about the registry and the router.                           *)

AllNames == {"ping", "troll", "echo", "info", "nope"}

\* C15: while names do not overlap, resolving a registered name gives the
\* definition registered under it and resolving any other name gives none:
\* registering under a new name makes that name resolve to the new
\* definition and changes the answer for no other name; the same holds for
\* the subcommands of a group.
C15_ResolveReturnsRegistered ==
    [][/\ \A def \in Definitions :
              (/\ controller_command(def[1], def[2], def[3])
               /\ def[1] \notin DOMAIN COMMANDS_REGISTRY) =>
                  /\ Get(COMMANDS_REGISTRY', def[1]) =
                         <<[group |-> FALSE, name |-> def[1], callback |-> def[2],
                            autocomplete |-> def[3]]>>
                  /\ \A n \in AllNames \ {def[1]} :
                         Get(COMMANDS_REGISTRY', n) = Get(COMMANDS_REGISTRY, n)
       /\ \A g \in GroupNames :
              (CommandGroup(g) /\ g \notin DOMAIN COMMANDS_REGISTRY) =>
                  /\ Get(COMMANDS_REGISTRY', g) # None
                  /\ Get(COMMANDS_REGISTRY', g)[1].group
                  /\ DOMAIN Get(COMMANDS_REGISTRY', g)[1].subcommands = {}
                  /\ \A n \in AllNames \ {g} :
                         Get(COMMANDS_REGISTRY', n) = Get(COMMANDS_REGISTRY, n)
       /\ \A g \in GroupNames, def \in SubDefinitions :
              (/\ command(g, def[1], def[2], def[3])
               /\ def[1] \notin DOMAIN COMMANDS_REGISTRY[g].subcommands) =>
                  /\ Get(COMMANDS_REGISTRY'[g].subcommands, def[1]) =
                         <<[name |-> def[1], callback |-> def[2],
                            autocomplete |-> def[3]]>>
                  /\ \A n \in {"spam", "say", "server", "nope"} \ {def[1]} :
                         Get(COMMANDS_REGISTRY'[g].subcommands, n) =
                             Get(COMMANDS_REGISTRY[g].subcommands, n)
                  /\ \A n \in AllNames \ {g} :
                         Get(COMMANDS_REGISTRY', n) = Get(COMMANDS_REGISTRY, n)
      ]_vars

\* echo has been registered beside the commands of the cogs, with a
\* subcommand; every registered name resolves and nope does not.
C15_Witness ==
    /\ DOMAIN COMMANDS_REGISTRY = {"ping", "troll", "info", "echo"}
    /\ COMMANDS_REGISTRY["echo"].group
    /\ Get(COMMANDS_REGISTRY["echo"].subcommands, "say") =
           <<[name |-> "say", callback |-> "echo_say",
              autocomplete |-> "say_autocomplete"]>>
    /\ Get(COMMANDS_REGISTRY, "ping") =
           <<[group |-> FALSE, name |-> "ping", callback |-> "ping_command",
              autocomplete |-> "None"]>>
    /\ Get(COMMANDS_REGISTRY, "nope") = None

\* C16: a command interaction (not autocomplete) naming a registered
\* top-level command, ping with no options among them, awaits that command's
\* handler once and no other function.
C16_TopLevelInvokedOnce ==
    [][\A data \in {routed'[k].interaction : k \in DOMAIN routed'} :
           (/\ HandleInteraction(data)
            /\ data.type # 4
            /\ data.data.name \in DOMAIN COMMANDS_REGISTRY
            /\ ~COMMANDS_REGISTRY[data.data.name].group) =>
               routed'[1].invoked = <<COMMANDS_REGISTRY[data.data.name].callback>>
      ]_vars

\* The interaction ping, without options, has been handled by ping_command
\* and by nothing else.
C16_Witness ==
    /\ routed # <<>>
    /\ routed[1].interaction = PingInteraction
    /\ routed[1].invoked = <<"ping_command">>

\* The first option whose kind is subcommand or subcommand-group, wherever it
\* sits: <<>> if there is none.
RECURSIVE FirstSubOption(_)
FirstSubOption(options) ==
    IF options = <<>> THEN None
    ELSE IF Head(options).type \in {SUB_COMMAND, SUB_COMMAND_GROUP}
    THEN <<Head(options)>>
    ELSE FirstSubOption(Tail(options))

\* C17: for a group the router awaits the child named by the first option
\* of kind subcommand or subcommand-group, wherever that option is in the
\* list, and awaits nothing if there is no such option.
C17_GroupWalksToFirstSubOption ==
    [][\A data \in {routed'[k].interaction : k \in DOMAIN routed'} :
           (/\ HandleInteraction(data)
            /\ data.data.name \in DOMAIN COMMANDS_REGISTRY
            /\ COMMANDS_REGISTRY[data.data.name].group) =>
               LET sub == FirstSubOption(data.data.options)
                   children == COMMANDS_REGISTRY[data.data.name].subcommands
               IN IF sub = None
                  THEN routed'[1].invoked = <<>>
                  ELSE sub[1].name \in DOMAIN children =>
                       routed'[1].invoked \in
                           { <<children[sub[1].name].callback>>,
                             <<children[sub[1].name].autocomplete>> }
      ]_vars

\* The entry an interaction resolves to, <<>> if it resolves to none: the
\* top-level command, or the child of the group named by the leading
\* subcommand option.
ResolvedEntry(reg, data) ==
    LET n == data.data.name
        options == data.data.options
    IN IF n \notin DOMAIN reg THEN None
       ELSE IF ~reg[n].group THEN <<reg[n]>>
       ELSE IF options # <<>> /\ options[1].type = SUB_COMMAND
               /\ options[1].name \in DOMAIN reg[n].subcommands
       THEN <<reg[n].subcommands[options[1].name]>>
       ELSE None

\* C19: a resolved interaction awaits exactly one function: the entry's
\* autocomplete handler if it is an autocomplete request and the entry has
\* one, the entry's handler otherwise.
C19_OneOfHandlerAndAutocomplete ==
    [][\A data \in {routed'[k].interaction : k \in DOMAIN routed'} :
           (/\ HandleInteraction(data)
            /\ ResolvedEntry(COMMANDS_REGISTRY, data) # None) =>
               LET entry == ResolvedEntry(COMMANDS_REGISTRY, data)[1] IN
               routed'[1].invoked =
                   IF data.type = 4 /\ entry.autocomplete # "None"
                   THEN <<entry.autocomplete>>
                   ELSE <<entry.callback>>
      ]_vars

\* The interaction names no registered command, or a group and a subcommand
\* the group does not have.
Unknown(reg, data) ==
    \/ data.data.name \notin DOMAIN reg
    \/ /\ reg[data.data.name].group
       /\ FirstSubOption(data.data.options) # None
       /\ FirstSubOption(data.data.options)[1].name
              \notin DOMAIN reg[data.data.name].subcommands

\* C20: an interaction naming an unknown command, or a group with an unknown
\* subcommand, awaits no handler and gets no response, and leaves the
\* registry as it was; a command interaction handled after such a one still
\* reaches the handler of the command it names.
C20_UnknownIsIgnored ==
    [][\A data \in {routed'[k].interaction : k \in DOMAIN routed'} :
           HandleInteraction(data) =>
               /\ Unknown(COMMANDS_REGISTRY, data) =>
                      /\ routed'[1].invoked = <<>>
                      /\ routed'[1].responses = <<>>
                      /\ COMMANDS_REGISTRY' = COMMANDS_REGISTRY
               /\ (/\ logged # {}
                   /\ data.type # 4
                   /\ ResolvedEntry(COMMANDS_REGISTRY, data) # None) =>
                      routed'[1].invoked =
                          <<ResolvedEntry(COMMANDS_REGISTRY, data)[1].callback>>
      ]_vars

\* After an unknown command and an unknown subcommand had been ignored, an
\* interaction troll spam reached troll_spam.
C20_Witness ==
    /\ routed # <<>>
    /\ routed[1].after = {"Unknown command received", "Unknown subcommand"}
    /\ routed[1].interaction.data.name = "troll"
    /\ routed[1].invoked = <<"troll_spam">>
    /\ routed[1].responses = <<"troll_spam">>

-----------------------------------------------------------------------------
(* The claim about get_arg.                                                *)

\* The options with a value at the top level of the payload (depth 0) and in
\* the option lists of its subcommand options (depth 1).
LeavesAtDepth0(data) ==
    { data.data.options[i] : i \in
        { i \in DOMAIN data.data.options :
            data.data.options[i].type \notin {SUB_COMMAND, SUB_COMMAND_GROUP} } }

LeavesAtDepth1(data) ==
    UNION { { data.data.options[i].options[j] :
                j \in DOMAIN data.data.options[i].options } :
            i \in { i \in DOMAIN data.data.options :
                      data.data.options[i].type \in {SUB_COMMAND, SUB_COMMAND_GROUP} } }

TrollSpam == Interaction(2, "troll", <<Sub("spam", SUB_COMMAND, SpamOptions)>>)

\* C18: get_arg returns the value of the option called name, at depth 0 or
\* at depth 1, and the default when no option has that name; for troll spam
\* text="hi" count=3, get_arg(payload, "count") is 3.
C18_GetArgumentFindsLeaf ==
    got # <<>> =>
        LET g == got[1]
            named == { o \in LeavesAtDepth0(g.interaction)
                              \cup LeavesAtDepth1(g.interaction) :
                       o.name = g.name }
        IN /\ named = {} => g.value = g.default
           /\ \A o \in named : Cardinality(named) = 1 => g.value = o.value
           /\ (g.interaction = TrollSpam /\ g.name = "count") => g.value = IntVal(3)

\* get_arg was asked for count on troll spam text="hi" count=3, with a
\* default of 5, and answered 3.
C18_Witness ==
    /\ got # <<>>
    /\ got[1].interaction = TrollSpam
    /\ got[1].name = "count"
    /\ got[1].default = IntVal(5)
    /\ got[1].value = IntVal(3)

\* The options that carry a value, in depth-first order: a subcommand or
\* subcommand-group option stands for the options it holds.
RECURSIVE LeavesInOrder(_)
LeavesInOrder(opts) ==
    IF opts = <<>> THEN <<>>
    ELSE (IF Head(opts).type \in {SUB_COMMAND, SUB_COMMAND_GROUP}
          THEN LeavesInOrder(Head(opts).options)
          ELSE <<Head(opts)>>)
         \o LeavesInOrder(Tail(opts))

\* C35: get_arg returns the value of the first option, in depth-first order
\* through subcommand and subcommand-group options, that is called name, and
\* the default exactly when the tree has no option called name.
C35_GetArgumentDepthFirst ==
    got # <<>> =>
        LET g == got[1]
            leaves == LeavesInOrder(g.interaction.data.options)
            hits == {k \in DOMAIN leaves : leaves[k].name = g.name}
        IN IF hits = {}
           THEN g.value = g.default
           ELSE /\ g.value = leaves[CHOOSE k \in hits : \A h \in hits : k <= h].value
                /\ g.value # g.default

\* get_arg was asked for text on a payload that has text="hi" inside the
\* subcommand and text="top" after it, and answered "hi".
C35_Witness ==
    /\ got # <<>>
    /\ got[1].interaction.data.options = SpamThenLeaves
    /\ got[1].name = "text"
    /\ got[1].value = StrVal("hi")

-----------------------------------------------------------------------------
(* The claims about registering under a name already taken.                *)

\* C23: registering a top-level command under a name that already holds a
\* different definition (a command or a group) is rejected: the registry is
\* left as it was and the earlier definition still resolves.
C23_CollisionRejected ==
    [][\A def \in Definitions :
           (/\ controller_command(def[1], def[2], def[3])
            /\ def[1] \in DOMAIN COMMANDS_REGISTRY
            /\ COMMANDS_REGISTRY[def[1]] # CommandEntry(def[1], def[2], def[3])) =>
               /\ COMMANDS_REGISTRY' = COMMANDS_REGISTRY
               /\ Get(COMMANDS_REGISTRY', def[1]) = Get(COMMANDS_REGISTRY, def[1])
      ]_vars

\* C24: creating a group under the name of an existing group gives the
\* existing group: every subcommand it had is still there and still resolves.
C24_GroupCreateOrReturn ==
    [][\A g \in GroupNames :
           (/\ CommandGroup(g)
            /\ g \in DOMAIN COMMANDS_REGISTRY
            /\ COMMANDS_REGISTRY[g].group) =>
               /\ Get(COMMANDS_REGISTRY', g) # None
               /\ Get(COMMANDS_REGISTRY', g)[1].group
               /\ \A n \in DOMAIN COMMANDS_REGISTRY[g].subcommands :
                      Get(Get(COMMANDS_REGISTRY', g)[1].subcommands, n) =
                          <<COMMANDS_REGISTRY[g].subcommands[n]>>
      ]_vars

-----------------------------------------------------------------------------
(* The claim about the usage-telemetry event.                              *)

\* C39: an interaction gives at most one 'command_used' event, none for an
\* autocomplete interaction or for the name "embed", and one only when the
\* router then invokes a registered handler: an interaction that names an
\* unknown command gives no event.
C39_TelemetryOnlyWhenInvoked ==
    \A i \in DOMAIN routed :
        LET r == routed[i] IN
        /\ Len(r.command_used) <= 1
        /\ r.command_used # <<>> =>
               /\ r.interaction.type # 4
               /\ r.interaction.data.name # "embed"
               /\ r.invoked # <<>>

=============================================================================
